---- MODULE Spec2Model ----
(***************************************************************************)
(* The invocation state machine of eons.Functor (src/src/Functor.py):      *)
(* WarmUp, the Function / Rollback result coding, CallNext and the value    *)
(* resolver Fetch, with the Python call stack of nested invocations made    *)
(* explicit as the sequence `frames`.                                       *)
(*                                                                         *)
(* An Operation is a Functor object, named by its index in Ops.  The       *)
(* attributes that outlive an invocation (result, next, executor, the      *)
(* fetched argument `a`) are functions over Ops.  this.kwargs and          *)
(* this.precursor are written at the start of every WarmUp before they are *)
(* read, and a precursor is always the Functor whose __call__ is still     *)
(* running one frame below, so they are kept in the frame.                 *)
(***************************************************************************)
EXTENDS Integers, Sequences, FiniteSets, TLC

\* Number of Functor objects.
NumOps == 3
\* Number of __call__ invocations the outside caller may set off in all: each of its
\* invocations counts with the successors it queues.
MaxInvocations == 3

Ops == 1 .. NumOps

\* Python's None as a precursor / Functor reference.
NoOp == 0
\* The Python values of the model: a tag, a text and a list of Functors.
Val(t, s, l) == [t |-> t, s |-> s, l |-> l]
\* None.
NONE == Val("None", "", <<>>)
\* A str.
Str(s) == Val("str", s, <<>>)
\* A list of Functors.
List(q) == Val("list", "", q)
\* A function of the builtins module.
Builtin(n) == Val("builtin", n, <<>>)
\* An attribute that was never set on the object (hasattr is False).
Unset == Val("unset", "", <<>>)
\* A key that is not in this.kwargs.
Absent == Val("absent", "", <<>>)

\* What Function and Rollback of Functor o hand back when they return a value.
FunctionRet(o) == Val("Function", "", <<o>>)
RollbackRet(o) == Val("Rollback", "", <<o>>)

\* this.kwargs with none of the names of the model in it.
NoKWArgs == [a |-> Absent, next |-> Absent, x |-> Absent, s |-> Absent]
\* No Method object, and no call made yet.
NoMethod == <<>>
NoCall == [call |-> "none"]

NoExc == [kind |-> "none", src |-> NoOp]
Exc(k, o) == [kind |-> k, src |-> o]

VARIABLES
    result,          \* this.result of every Functor
    next,            \* this.next of every Functor
    attrA,           \* the attribute `a` of every Functor (Unset when it has none)
    executor,        \* whether this.executor is set
    requiredKWArgs,  \* this.requiredKWArgs of every Functor
    environ,         \* the names os.getenv finds
    functors,        \* FunctorTracker's stack
    frames,          \* the running __call__ invocations, outermost first
    executed,        \* the Execute calls of the running chain, in order
    queued,          \* the `next` argument of the outside caller's invocation
    calls,           \* invocations the outside caller has set off so far
    optionalKWArgs,  \* the names of this.optionalKWArgs of every Functor
    staticKWArgs,    \* this.staticKWArgs of every Functor
    requiredMethods, \* this.requiredMethods of every Functor
    initialized,     \* this.initialized
    staticArgsValid, \* this.staticArgsValid
    precursor,       \* this.precursor, which stays set after the invocation
    kwargs,          \* this.kwargs, which stays set after the invocation
    attrX,           \* the attribute `x` of every Functor
    attrS,           \* the attribute `s` of every Functor
    classMethods,    \* the @method `m` of every Functor's class (NoMethod without)
    methods,         \* this.methods['m'] of every Functor (NoMethod without)
    thisFetchFrom,   \* this.fetchFrom of every Functor
    fetchLocations,  \* the keys of this.fetchLocations of every Functor
    last             \* the last call made in SpecInit, SpecArgs, SpecMethods or
                     \* SpecLocations

vars == <<result, next, attrA, executor, requiredKWArgs, environ, functors,
          frames, executed, queued, calls>>

\* What Spec leaves alone: its Functors declare no optional or static arguments and
\* no methods, for which Initialize, PopulateMethods, ValidateStaticArgs and
\* ValidateMethods do nothing, and the stack of frames holds this.kwargs and
\* this.precursor of the running Functors.  They keep the fetchFrom of __init__,
\* every entry of which has its fetch_location_ method, and Fetch only comes to
\* Functors whose WarmUp has run Initialize: no location is passed over.
declVars == <<optionalKWArgs, staticKWArgs, requiredMethods, thisFetchFrom>>
setupVars == <<initialized, staticArgsValid, precursor, kwargs, attrX, attrS,
               classMethods, methods, fetchLocations, last>>

(***************************************************************************)
(* Fetch                                                                   *)
(***************************************************************************)

\* this.fetchFrom as __init__ sets it.
fetchFrom == <<"this", "args", "globals", "config", "precursor", "executor", "environment">>

SeqToSet(s) == {s[k] : k \in 1 .. Len(s)}
Without(s, dont) == SelectSeq(s, LAMBDA f : f \notin dont)

\* A location's answer (ret, found); "error" is the lookup raising.
Found(v) == [val |-> v, st |-> "found"]
NotFound(d) == [val |-> d, st |-> "default"]
Raised(k) == [val |-> Str(k), st |-> "error"]

\* str.upper() on the variable names of the model.
Upper(varName) == IF varName = "a" THEN "A" ELSE IF varName = "next" THEN "NEXT" ELSE varName

\* The names Fetch is asked for in the model.
VarNames == {"a", "next", "x", "s"}

\* The objects Fetch reads, as one record h: the attributes (h.attr), this.kwargs
\* (h.kwargs), this.precursor (h.precursor) and whether this.executor is set
\* (h.executor) of every Functor, and the environment (h.environ).  this.name is
\* the Functor's index.
fetch_location_this(h, o, varName, default) ==
    IF h.attr[o][varName] # Unset THEN Found(h.attr[o][varName]) ELSE NotFound(default)

fetch_location_args(h, o, varName, default) ==
    IF h.kwargs[o][varName] # Absent THEN Found(h.kwargs[o][varName])
    ELSE NotFound(default)

\* The base Functor has no config attribute.
fetch_location_config(h, o, varName, default) == NotFound(default)

\* builtins has a function called next and nothing called a, x or s.
fetch_location_globals(h, o, varName, default) ==
    IF varName = "next" THEN Found(Builtin("next")) ELSE NotFound(default)

fetch_location_environment(h, o, varName, default) ==
    IF varName \in h.environ THEN Found(Str(varName))
    ELSE IF Upper(varName) \in h.environ THEN Found(Str(Upper(varName)))
    ELSE NotFound(default)

\* The Executor's own resolver: it holds no value for the names of the model.
ExecutorFetchWithout(dontFetchFrom, varName, default) == NotFound(default)

\* this.GetExecutor() is None when no executor is attached, and the call on it raises.
fetch_location_executor(h, o, varName, default) ==
    IF h.executor[o] THEN ExecutorFetchWithout({"environment"}, varName, default)
    ELSE Raised("AttributeError")

RECURSIVE Fetch(_, _, _, _, _, _)
RECURSIVE FetchLoop(_, _, _, _, _, _)
RECURSIVE FetchWithAndWithout(_, _, _, _, _, _, _)
RECURSIVE FetchLocation(_, _, _, _, _, _)

\* The locations the precursor is asked with: 'this' added, 'environment' taken out.
PrecursorWith == {"this"}
PrecursorWithout == {"environment"}

fetch_location_precursor(h, o, varName, default, attempted) ==
    IF h.precursor[o] = NoOp THEN {NotFound(default)}
    ELSE FetchWithAndWithout(h, h.precursor[o], PrecursorWith, PrecursorWithout,
                             varName, default, attempted)

\* The answers fetchLocations[loc] can give for Functor o; a name that is no fetch
\* location is passed over by Fetch.
FetchLocation(h, o, loc, varName, default, attempted) ==
    CASE loc = "this" -> {fetch_location_this(h, o, varName, default)}
      [] loc = "args" -> {fetch_location_args(h, o, varName, default)}
      [] loc = "globals" -> {fetch_location_globals(h, o, varName, default)}
      [] loc = "config" -> {fetch_location_config(h, o, varName, default)}
      [] loc = "precursor" -> fetch_location_precursor(h, o, varName, default, attempted)
      [] loc = "executor" -> {fetch_location_executor(h, o, varName, default)}
      [] loc = "environment" -> {fetch_location_environment(h, o, varName, default)}
      [] OTHER -> {NotFound(default)}

\* What Fetch hands back: the answer and, in `asked`, the locations its loop called.
Answer(r, asked) == [val |-> r.val, st |-> r.st, asked |-> asked]

\* The loop of Fetch over the locations in locs: the first one found wins.
FetchLoop(h, o, varName, default, locs, attempted) ==
    IF locs = <<>> THEN {Answer(NotFound(default), <<>>)}
    ELSE LET here == FetchLocation(h, o, Head(locs), varName, default, attempted)
         IN  {Answer(r, <<Head(locs)>>) : r \in {r \in here : r.st # "default"}}
             \cup (IF \E r \in here : r.st = "default"
                   THEN {Answer(r, <<Head(locs)>> \o r.asked) :
                           r \in FetchLoop(h, o, varName, default, Tail(locs), attempted)}
                   ELSE {})

\* A wrong Fetch, against which C15 is tested: a Functor that was asked already
\* still looks at its own attributes.
Fetch_VisitedAsksThis(h, o, varName, default, locs, attempted) ==
    IF o \in attempted
    THEN {Answer(fetch_location_this(h, o, varName, default), <<"this">>)}
    ELSE FetchLoop(h, o, varName, default, locs, attempted \cup {o})

\* Fetch of Functor o; `attempted` holds the names of the Functors already asked.
Fetch(h, o, varName, default, locs, attempted) ==
    IF o \in attempted THEN {Answer(NotFound(default), <<>>)}
    ELSE FetchLoop(h, o, varName, default, locs, attempted \cup {o})

FetchWithout(h, o, dontFetchFrom, varName, default) ==
    Fetch(h, o, varName, default, Without(fetchFrom, dontFetchFrom), {})

\* list(set(fetchFrom + doFetchFrom)) comes in any order: a location can find the
\* name, or raise, before the others are asked; the default is handed back when
\* every location can report not found.
FetchWithAndWithout(h, o, doFetchFrom, dontFetchFrom, varName, default, attempted) ==
    IF o \in attempted THEN {NotFound(default)}
    ELSE LET att == attempted \cup {o}
             locSet == (SeqToSet(fetchFrom) \ dontFetchFrom) \cup doFetchFrom
             ans(loc) == FetchLocation(h, o, loc, varName, default, att)
         IN  UNION {{r \in ans(loc) : r.st # "default"} : loc \in locSet}
             \cup (IF \A loc \in locSet : \E r \in ans(loc) : r.st = "default"
                   THEN {NotFound(default)} ELSE {})

\* EvaluateToType on the values of the model: None and "None" become None; a list
\* is rebuilt with its elements, which are Functors and stay as they are; a str
\* that is no template, bool or number stays; anything else is handed back.
EvaluateToType(value) ==
    IF value = NONE \/ value = Str("None") THEN NONE
    ELSE IF value.t = "list" THEN List([k \in 1 .. Len(value.l) |-> value.l[k]])
    ELSE value

(***************************************************************************)
(* The collaborators: FunctorTracker and the Executor                      *)
(***************************************************************************)

\* FunctorTracker.Push and FunctorTracker.Pop on the tracker's stack.
Push(stack, o) == Append(stack, o)
Pop(stack) == IF stack = <<>> THEN stack ELSE SubSeq(stack, 1, Len(stack) - 1)

\* Executor.Execute(successor, precursor=..., next=...) calls the successor with
\* these keyword arguments and itself as executor.
ExecuteCall(successor, re, kw) ==
    [op |-> successor, raiseExceptions |-> re, args |-> <<>>,
     kwargs |-> [a |-> Absent, next |-> kw.next, executor |-> TRUE]]

(***************************************************************************)
(* __call__                                                                *)
(***************************************************************************)

\* The queues the outside caller passes to Functor o: other Functors, each once.
Queues(o, longest) ==
    {q \in UNION {[1 .. n -> Ops \ {o}] : n \in 0 .. longest} :
        \A j, k \in 1 .. Len(q) : j # k => q[j] # q[k]}

\* this.argMapping: the declared names take positional arguments in order.
argMapping(o) == requiredKWArgs[o]

\* Whether Function and Rollback of Functor o return None, as the base class's do.
ReturnsNone(o) == o = NumOps

\* A __call__ that has just started: FunctorTracker.Push is done, ret and nextRet
\* are None.  Beside the locals of __call__ the frame keeps what the invocation
\* did: the hooks and methods it ran (events), the error WarmUp ended with (warm),
\* how Function and Rollback went, the result code it set (code, -1 before), the
\* successor CallNext popped and what ValidateNext said, and the calls WarmUp made
\* on the executor (placing).
NewFrame(c) ==
    [op |-> c.op, pc |-> "WarmUp", raiseExceptions |-> c.raiseExceptions,
     args |-> c.args, kwargs |-> c.kwargs,
     ret |-> NONE, nextRet |-> NONE, exc |-> NoExc, events |-> <<>>,
     warm |-> "none", fn |-> "none", enableRollback |-> FALSE, rollback |-> "none",
     code |-> -1, raised |-> FALSE, popped |-> NoOp, validateNext |-> "none",
     placing |-> <<>>]

Top == Len(frames)
Running(pc) == frames # <<>> /\ frames[Top].pc = pc

\* The except clause of __call__: re-raise, or log and go on after the try.
Catch(f, e) ==
    [f EXCEPT !.pc = IF f.raiseExceptions THEN "Raise" ELSE "Final",
              !.exc = e, !.raised = TRUE]

\* Every Functor as __init__ leaves it, and nothing running.
Fresh ==
    /\ result = [o \in Ops |-> 0]
    /\ next = [o \in Ops |-> List(<<>>)]
    /\ attrA = [o \in Ops |-> Unset]
    /\ attrX = [o \in Ops |-> Unset]
    /\ attrS = [o \in Ops |-> Unset]
    /\ executor = [o \in Ops |-> FALSE]
    /\ precursor = [o \in Ops |-> NoOp]
    /\ kwargs = [o \in Ops |-> NoKWArgs]
    /\ initialized = [o \in Ops |-> FALSE]
    /\ staticArgsValid = [o \in Ops |-> FALSE]
    /\ methods = [o \in Ops |-> NoMethod]
    /\ fetchLocations = [o \in Ops |-> {}]
    /\ functors = <<>>
    /\ frames = <<>>
    /\ executed = <<>>
    /\ queued = <<>>
    /\ calls = 0
    /\ last = NoCall

Init ==
    /\ Fresh
    /\ requiredKWArgs = [o \in Ops |-> IF o = 1 THEN <<"a">> ELSE <<>>]
    /\ optionalKWArgs = [o \in Ops |-> {}]
    /\ staticKWArgs = [o \in Ops |-> <<>>]
    /\ requiredMethods = [o \in Ops |-> {}]
    /\ thisFetchFrom = [o \in Ops |-> fetchFrom]
    /\ classMethods = [o \in Ops |-> NoMethod]
    /\ environ \in {{}, {"A"}}

\* The outside caller invokes Functor o: o(*args, a=..., next=..., executor=...).
Call ==
    /\ frames = <<>>
    /\ calls < MaxInvocations
    /\ \E o \in Ops, re \in BOOLEAN, ex \in BOOLEAN,
          args \in {<<>>, <<Str("pos")>>}, a \in {Absent, Str("kw")} :
        \E q \in Queues(o, MaxInvocations - calls - 1) :
          /\ frames' = <<NewFrame([op |-> o, raiseExceptions |-> re, args |-> args,
                                   kwargs |-> [a |-> a,
                                               next |-> IF q = <<>> THEN Absent ELSE List(q),
                                               executor |-> ex]])>>
          /\ functors' = Push(functors, o)
          /\ queued' = q
          /\ calls' = calls + 1 + Len(q)
    /\ executed' = <<>>
    /\ UNCHANGED <<result, next, attrA, executor, requiredKWArgs, environ>>
    /\ UNCHANGED <<declVars, setupVars>>

\* The frame in which Functor o is running (0 when it is not).
FrameOf(o) ==
    IF \E i \in 1 .. Len(frames) : frames[i].op = o
    THEN CHOOSE i \in 1 .. Len(frames) : frames[i].op = o
    ELSE 0

\* What Fetch reads while the chain of `frames` runs, ex telling which Functors have
\* their executor: the precursor of a running Functor is the one a frame below.
FramesHeap(ex) ==
    [attr |-> [o \in Ops |-> [a |-> attrA[o], next |-> next[o], x |-> Unset, s |-> Unset]],
     kwargs |-> [o \in Ops |->
                    IF FrameOf(o) = 0 THEN NoKWArgs
                    ELSE [NoKWArgs EXCEPT !.a = frames[FrameOf(o)].kwargs.a,
                                          !.next = frames[FrameOf(o)].kwargs.next]],
     precursor |-> [o \in Ops |-> IF FrameOf(o) > 1 THEN frames[FrameOf(o) - 1].op ELSE NoOp],
     executor |-> ex,
     environ |-> environ]

\* WarmUp up to the step that raises, for the frame on top: the attributes it has
\* written by then and the error (or "none").
\*   PopulatePrecursor attaches the executor handed in kwargs;
\*   PopulateNext binds this.next;
\*   ValidateArgs binds the positional arguments, then Fetches every required name
\*   that no positional argument bound, without 'this'.
WarmUpRuns ==
    LET i == Top
        f == frames[i]
        o == f.op
        hasEx == executor[o] \/ f.kwargs.executor
        h == FramesHeap([executor EXCEPT ![o] = hasEx])
        at(ex, nx, aa, err) == [executor |-> ex, next |-> nx, attrA |-> aa, err |-> err]
        argMap == SubSeq(argMapping(o), 1, Len(f.args))
        bound == IF argMap = <<>> THEN attrA[o] ELSE EvaluateToType(f.args[1])
        required(nx) ==
            IF requiredKWArgs[o] = <<>> \/ "a" \in SeqToSet(argMap)
            THEN {at(hasEx, nx, bound, "none")}
            ELSE {IF r.st = "found" THEN at(hasEx, nx, EvaluateToType(r.val), "none")
                  ELSE IF r.st = "error" THEN at(hasEx, nx, bound, r.val.s)
                  ELSE at(hasEx, nx, bound, "MissingArgumentError") :
                     r \in FetchWithout(h, o, {"this"}, "a", NONE)}
        validateArgs(nx) ==
            IF Len(f.args) > Len(argMapping(o))
            THEN {at(hasEx, nx, attrA[o], "MissingArgumentError")}
            ELSE required(nx)
    IN  UNION {IF n.st = "error"
               THEN {at(hasEx, next[o], attrA[o], n.val.s)}
               ELSE validateArgs(EvaluateToType(n.val)) :
                  n \in FetchWithout(h, o, {"this", "environment", "executor", "globals"},
                                     "next", List(<<>>))}

\* The except clause of WarmUp: re-raise into __call__, whose own except clause
\* re-raises again; or log the error and return to __call__, which goes on.
WarmUpCatch(f, err) ==
    IF err = "none" THEN [f EXCEPT !.pc = "Body"]
    ELSE [f EXCEPT !.pc = IF f.raiseExceptions THEN "Raise" ELSE "Body",
                   !.exc = Exc(err, f.op), !.warm = err, !.raised = TRUE]

\* A wrong WarmUp, against which C19 is tested: ResolvePlacementOf is left out.
Placing_NoResolve(hasExecutor, err) == IF hasExecutor THEN <<"BeginPlacing">> ELSE <<>>

\* The calls WarmUp makes on the executor: BeginPlacing after PopulatePrecursor,
\* ResolvePlacementOf as the last step of the try block, both only with an executor.
Placing(hasExecutor, err) ==
    IF ~hasExecutor THEN <<>>
    ELSE IF err = "none" THEN <<"BeginPlacing", "ResolvePlacementOf">>
    ELSE <<"BeginPlacing">>

WarmUp ==
    /\ Running("WarmUp")
    /\ \E w \in WarmUpRuns :
        LET o == frames[Top].op IN
          /\ executor' = [executor EXCEPT ![o] = w.executor]
          /\ next' = [next EXCEPT ![o] = w.next]
          /\ attrA' = [attrA EXCEPT ![o] = w.attrA]
          /\ frames' = [frames EXCEPT ![Top] =
                           [WarmUpCatch(@, w.err) EXCEPT
                               !.placing = Placing(w.executor, w.err)]]
    /\ UNCHANGED <<result, requiredKWArgs, environ, functors, executed, queued, calls>>
    /\ UNCHANGED <<declVars, setupVars>>

\* A wrong result coding, against which C1 is tested: codes 2 and 3 exchanged.
ResultCode_Swapped(functionSucceeded, enableRollback, rollbackSucceeded) ==
    IF functionSucceeded THEN 0
    ELSE IF enableRollback THEN (IF rollbackSucceeded THEN 1 ELSE 3)
    ELSE 2

\* The result code of __call__ from DidFunctionSucceed, enableRollback and
\* DidRollbackSucceed.
ResultCode(functionSucceeded, enableRollback, rollbackSucceeded) ==
    IF functionSucceeded THEN 0
    ELSE IF enableRollback THEN (IF rollbackSucceeded THEN 1 ELSE 2)
    ELSE 3

\* Whether __call__ runs the rollback method.
RunsRollback(functionSucceeded, enableRollback) == ~functionSucceeded /\ enableRollback

\* A wrong chaining rule, against which C2 is tested: chain unless Rollback failed.
Chains_UnlessRollbackFailed(code) == code # 2

\* Whether __call__ goes to CallNext after setting the result code.
Chains(code) == code \in {0, 1}

\* BeforeFunction, Function, and on failure Rollback, up to the result code.
Body ==
    /\ Running("Body")
    /\ LET f == frames[Top]
           o == f.op
           g == [f EXCEPT !.events = @ \o <<"Before", "Function">>]
       IN
        \/ \* Function raises.
           /\ frames' = [frames EXCEPT ![Top] =
                            Catch([g EXCEPT !.fn = "raise"], Exc("FunctionError", o))]
           /\ UNCHANGED result
        \/ \E ok \in BOOLEAN, rb \in BOOLEAN, rbOk \in BOOLEAN :
               LET code == ResultCode(ok, rb, rbOk)
                   ran == RunsRollback(ok, rb)
               IN
               \* a Rollback that does not run reports nothing
               /\ ~ran => ~rbOk
               /\ result' = [result EXCEPT ![o] = code]
               /\ frames' = [frames EXCEPT ![Top] =
                     [g EXCEPT !.fn = IF ok THEN "ok" ELSE "fail",
                               !.enableRollback = rb,
                               !.rollback = IF ~ran THEN "none"
                                            ELSE IF rbOk THEN "ok" ELSE "fail",
                               !.events = IF ran THEN Append(@, "Rollback") ELSE @,
                               !.ret = IF ReturnsNone(o) THEN NONE
                                       ELSE IF ran THEN RollbackRet(o) ELSE FunctionRet(o),
                               !.code = code,
                               !.pc = IF Chains(code) THEN "CallNext" ELSE "After"]]
    /\ UNCHANGED <<next, attrA, executor, requiredKWArgs, environ, functors, executed,
                   queued, calls>>
    /\ UNCHANGED <<declVars, setupVars>>

\* Python's truth value of a value of the model.
Falsy(value) == value = NONE \/ value = List(<<>>) \/ value = Str("")

\* Wrong queue handling, against which C7 and C8 are tested: the last entry is
\* taken instead of the first, and the queue handed on is not shortened.
Successor_Last(q) == q[Len(q)]
Remaining_Whole(q) == q

\* this.next.pop(0): the successor, and what stays in this.next.
Successor(q) == Head(q)
Remaining(q) == Tail(q)

\* A wrong validity rule, against which C9 is tested: ValidateNext is not consulted.
InvalidNext_NoValidate(hasExecutor, validateNext) == ~hasExecutor

\* Whether CallNext raises InvalidNext for the successor it popped.
InvalidNext(hasExecutor, validateNext) == ~hasExecutor \/ ~validateNext

\* The keyword arguments CallNext gives Execute: precursor=this, next=this.next.
ExecuteKWArgs(o, nx) == [precursor |-> o, next |-> nx]

\* CallNext: None on an empty queue; otherwise pop the first successor, and raise
\* InvalidNext without an executor or when ValidateNext says no, else have the
\* Executor Execute it with *this as precursor and the rest of the queue as next.
CallNext ==
    /\ Running("CallNext")
    /\ LET f == frames[Top]
           o == f.op
           g == [f EXCEPT !.events = Append(@, "CallNext")]
       IN
        \/ \* `not this.next`, or a next that is no list and cannot pop
           /\ Falsy(next[o]) \/ next[o].t # "list"
           /\ frames' = [frames EXCEPT ![Top] = [g EXCEPT !.nextRet = NONE, !.pc = "After"]]
           /\ UNCHANGED <<next, functors, executed>>
        \/ /\ ~Falsy(next[o]) /\ next[o].t = "list"
           /\ \E validateNext \in BOOLEAN, re \in BOOLEAN :
               LET succ == Successor(next[o].l)
                   rest == List(Remaining(next[o].l))
                   h == [g EXCEPT !.popped = succ,
                                  !.validateNext = IF ~executor[o] THEN "none"
                                                   ELSE IF validateNext THEN "yes" ELSE "no"]
               IN
               \* ValidateNext is asked only with an executor, and the successor's
               \* raiseExceptions is read only when it runs
               /\ ~executor[o] => validateNext
               /\ InvalidNext(executor[o], validateNext) => re
               /\ next' = [next EXCEPT ![o] = rest]
               /\ IF InvalidNext(executor[o], validateNext)
                  THEN /\ frames' = [frames EXCEPT ![Top] = Catch(h, Exc("InvalidNext", o))]
                       /\ UNCHANGED <<functors, executed>>
                  ELSE /\ frames' = Append([frames EXCEPT ![Top] = [h EXCEPT !.pc = "Waiting"]],
                                           NewFrame(ExecuteCall(succ, re, ExecuteKWArgs(o, rest))))
                       /\ functors' = Push(functors, succ)
                       /\ executed' = Append(executed,
                              [op |-> succ, precursor |-> o, next |-> rest.l,
                               by |-> f.code, how |-> "running", code |-> -1, val |-> NONE])
    /\ UNCHANGED <<result, attrA, executor, requiredKWArgs, environ, queued, calls>>
    /\ UNCHANGED <<declVars, setupVars>>

\* A wrong raising rule, against which C3 is tested: only result 3 raises.
RaisesOnResult_OnlyThree(raiseExceptions, res) == raiseExceptions /\ res > 2

\* Whether __call__ raises FunctorError after its try statement.
RaisesOnResult(raiseExceptions, res) == raiseExceptions /\ res > 1

\* The end of __call__: AfterFunction when the try block got that far, then raise
\* FunctorError on a result above 1, or Pop and return nextRet or else ret.
Return ==
    /\ Running("After") \/ Running("Final")
    /\ LET f == frames[Top]
           g == IF f.pc = "After" THEN [f EXCEPT !.events = Append(@, "After")] ELSE f
       IN IF RaisesOnResult(f.raiseExceptions, result[f.op])
          THEN /\ frames' = [frames EXCEPT ![Top] =
                               [g EXCEPT !.pc = "Raise", !.exc = Exc("FunctorError", f.op)]]
               /\ UNCHANGED functors
          ELSE /\ frames' = [frames EXCEPT ![Top] =
                               [g EXCEPT !.pc = "Return",
                                         !.ret = IF g.nextRet # NONE THEN g.nextRet ELSE g.ret]]
               /\ functors' = Pop(functors)
    /\ UNCHANGED <<result, next, attrA, executor, requiredKWArgs, environ, executed,
                   queued, calls>>
    /\ UNCHANGED <<declVars, setupVars>>

\* __call__ has ended, by return or by an exception, and its caller goes on: the
\* outside caller, or the CallNext of the __call__ below, where an exception meets
\* the except clause.
Unwind ==
    /\ Running("Return") \/ Running("Raise")
    /\ LET f == frames[Top] IN
        IF Top = 1
        THEN /\ frames' = <<>>
             /\ executed' = <<>>
             /\ queued' = <<>>
        ELSE /\ frames' = [SubSeq(frames, 1, Top - 1) EXCEPT ![Top - 1] =
                             IF f.pc = "Raise" THEN Catch(@, f.exc)
                             ELSE [@ EXCEPT !.nextRet = f.ret, !.pc = "After"]]
             /\ executed' = [executed EXCEPT ![Top - 1] =
                               [@ EXCEPT !.how = IF f.pc = "Raise" THEN "raise" ELSE "return",
                                         !.code = f.code,
                                         !.val = IF f.pc = "Raise" THEN NONE ELSE f.ret]]
             /\ UNCHANGED queued
    /\ UNCHANGED <<result, next, attrA, executor, requiredKWArgs, environ, functors, calls>>
    /\ UNCHANGED <<declVars, setupVars>>

Next == Call \/ WarmUp \/ Body \/ CallNext \/ Return \/ Unwind

Spec == Init /\ [][Next]_<<vars, declVars, setupVars>>

(***************************************************************************)
(* SpecInit: Initialize on Functors that declare required and optional     *)
(* keyword arguments                                                       *)
(***************************************************************************)

\* The names a Functor declares arguments with.
ArgNames == {"a", "x", "s"}
\* The longest requiredKWArgs a Functor declares.
MaxRequired == 3

RECURSIVE Dedup(_)
\* list(dict.fromkeys(q)): every entry once, where it is first seen.
Dedup(q) ==
    IF q = <<>> THEN <<>>
    ELSE LET front == Dedup(SubSeq(q, 1, Len(q) - 1))
         IN  IF q[Len(q)] \in SeqToSet(front) THEN front ELSE Append(front, q[Len(q)])

\* list.remove(e): q without the first entry equal to e.
Remove(q, e) ==
    LET k == CHOOSE k \in 1 .. Len(q) : q[k] = e /\ \A j \in 1 .. k - 1 : q[j] # e
    IN  SubSeq(q, 1, k - 1) \o SubSeq(q, k + 1, Len(q))

RECURSIVE RemoveOptional(_, _, _)
\* for arg in this.requiredKWArgs: ... this.requiredKWArgs.remove(arg) -- the loop
\* walks the list it removes from by position: idx is the position of the next
\* entry it looks at, which moves on by one after a removal, too.
RemoveOptional(q, idx, optional) ==
    IF idx > Len(q) THEN q
    ELSE IF q[idx] \in optional THEN RemoveOptional(Remove(q, q[idx]), idx + 1, optional)
    ELSE RemoveOptional(q, idx + 1, optional)

RemoveDuplicateArgs(required, optional) == RemoveOptional(Dedup(required), 1, optional)

\* The names for which Functor defines a fetch_location_ method.
Resolvers == SeqToSet(fetchFrom)

RECURSIVE PopulateFetchLocations(_, _)
\* PopulateFetchLocations: the loop over this.fetchFrom adds every location to
\* this.fetchLocations (registered so far) until getattr raises for one that has no
\* fetch_location_ method, which ends the loop in the except clause.
PopulateFetchLocations(locs, registered) ==
    IF locs = <<>> THEN registered
    ELSE IF Head(locs) \notin Resolvers THEN registered
    ELSE PopulateFetchLocations(Tail(locs), registered \cup {Head(locs)})

\* Initialize as WarmUp calls it: nothing when this.initialized is set.
InitializedLocations(o) ==
    IF initialized[o] THEN fetchLocations[o]
    ELSE PopulateFetchLocations(thisFetchFrom[o], fetchLocations[o])

\* One Functor declares a requiredKWArgs list and optionalKWArgs, the others nothing.
InitInit ==
    /\ Fresh
    /\ \E o \in Ops :
        \E q \in UNION {[1 .. n -> ArgNames] : n \in 0 .. MaxRequired}, opt \in SUBSET ArgNames :
            /\ requiredKWArgs = [p \in Ops |-> IF p = o THEN q ELSE <<>>]
            /\ optionalKWArgs = [p \in Ops |-> IF p = o THEN opt ELSE {}]
    /\ staticKWArgs = [o \in Ops |-> <<>>]
    /\ requiredMethods = [o \in Ops |-> {}]
    /\ thisFetchFrom = [o \in Ops |-> fetchFrom]
    /\ classMethods = [o \in Ops |-> NoMethod]
    /\ environ = {}

\* Initialize of a Functor that is not initialized yet.
Initialize ==
    /\ \E o \in Ops :
        /\ ~initialized[o]
        /\ requiredKWArgs' = [requiredKWArgs EXCEPT
                                 ![o] = RemoveDuplicateArgs(@, optionalKWArgs[o])]
        /\ fetchLocations' = [fetchLocations EXCEPT ![o] = InitializedLocations(o)]
        /\ initialized' = [initialized EXCEPT ![o] = TRUE]
        /\ last' = [call |-> "Initialize", op |-> o, declared |-> requiredKWArgs[o]]
    /\ UNCHANGED <<result, next, attrA, executor, environ, functors, frames, executed,
                   queued, calls>>
    /\ UNCHANGED <<declVars, staticArgsValid, precursor, kwargs, attrX, attrS,
                   classMethods, methods>>

NextInit == Initialize

SpecInit == InitInit /\ [][NextInit]_<<vars, declVars, setupVars>>

(***************************************************************************)
(* SpecArgs: WarmUp and Fetch on Functors that declare an optional argument *)
(* x, some of them a static argument s, and no methods; the outside caller  *)
(* invokes them one at a time, handing in keyword arguments, a precursor    *)
(* and an executor                                                          *)
(***************************************************************************)

\* What Fetch reads between invocations: every Functor's attributes, and this.kwargs
\* and this.precursor as its last WarmUp set them.
ObjectsHeap(ex, kw, pre) ==
    [attr |-> [o \in Ops |-> [a |-> attrA[o], next |-> next[o], x |-> attrX[o], s |-> attrS[o]]],
     kwargs |-> kw,
     precursor |-> pre,
     executor |-> ex,
     environ |-> environ]

\* The default every Functor declares for x in optionalKWArgs.
DefaultOf(okw) == Str("5")

\* A wrong ValidateStaticArgs, against which C11 is tested: it Fetches every time.
ValidateStaticArgs_Always(h, o, valid) ==
    IF staticKWArgs[o] = <<>> THEN {[s |-> h.attr[o].s, valid |-> TRUE, err |-> "none"]}
    ELSE {IF r.st = "error" THEN [s |-> h.attr[o].s, valid |-> FALSE, err |-> r.val.s]
          ELSE IF r.val # NONE THEN [s |-> EvaluateToType(r.val), valid |-> TRUE, err |-> "none"]
          ELSE [s |-> h.attr[o].s, valid |-> FALSE, err |-> "MissingArgumentError"] :
             r \in Fetch(h, o, "s", NONE, Without(fetchFrom, {"this"}), {})}

\* ValidateStaticArgs of a Functor whose staticKWArgs is empty or ['s']: the
\* attribute s, this.staticArgsValid and the error it ends with.
ValidateStaticArgs(h, o, valid) ==
    IF valid THEN {[s |-> h.attr[o].s, valid |-> TRUE, err |-> "none"]}
    ELSE IF staticKWArgs[o] = <<>> \/ h.attr[o].s # Unset
    THEN {[s |-> h.attr[o].s, valid |-> TRUE, err |-> "none"]}
    ELSE {IF r.st = "error" THEN [s |-> h.attr[o].s, valid |-> FALSE, err |-> r.val.s]
          ELSE IF r.val # NONE THEN [s |-> EvaluateToType(r.val), valid |-> TRUE, err |-> "none"]
          ELSE [s |-> h.attr[o].s, valid |-> FALSE, err |-> "MissingArgumentError"] :
             r \in Fetch(h, o, "s", NONE, fetchFrom, {})}

\* The locations PopulateNext leaves out.
NextDontFetchFrom == {"this", "environment", "executor", "globals"}

\* PopulateNext: this.next as Set binds it from FetchWithout(dontFetchFrom, 'next',
\* []), and the error it ends with; this.next stays as it is when the Fetch raises.
PopulateNext(h, o) ==
    {IF n.st = "error" THEN [next |-> h.attr[o].next, err |-> n.val.s]
     ELSE [next |-> EvaluateToType(n.val), err |-> "none"] :
        n \in FetchWithout(h, o, NextDontFetchFrom, "next", List(<<>>))}

\* ValidateArgs of a Functor without positional and required arguments whose
\* optionalKWArgs is empty or {'x': 5}: the attribute x and the error it ends with.
ValidateArgs(h, o) ==
    IF "x" \notin optionalKWArgs[o] THEN {[x |-> h.attr[o].x, err |-> "none"]}
    ELSE {IF r.st = "error" THEN [x |-> h.attr[o].x, err |-> r.val.s]
          ELSE [x |-> EvaluateToType(r.val), err |-> "none"] :
             r \in FetchWithout(h, o, {"this"}, "x", DefaultOf("x"))}

InitArgs ==
    /\ Fresh
    /\ requiredKWArgs = [o \in Ops |-> <<>>]
    /\ optionalKWArgs = [o \in Ops |-> {"x"}]
    /\ staticKWArgs = [o \in Ops |-> IF o = 2 THEN <<"s">> ELSE <<>>]
    /\ requiredMethods = [o \in Ops |-> {}]
    /\ thisFetchFrom = [o \in Ops |-> fetchFrom]
    /\ classMethods = [o \in Ops |-> NoMethod]
    /\ environ \in {{}, {"X"}}

\* The outside caller invokes Functor o with keyword arguments x and s (s when the
\* Functor declares it), a precursor that has been invoked before and an executor,
\* and WarmUp runs: PopulatePrecursor,
\* Initialize, ValidateStaticArgs, PopulateNext, ValidateArgs up to the step that
\* raises.
Invoke ==
    /\ calls < MaxInvocations
    /\ \E o \in Ops, x \in {Absent, Str("kw")}, sv \in {Absent, Str("kw"), Str("kw2")},
          pre \in {NoOp} \cup {p \in Ops : initialized[p]}, ex \in BOOLEAN :
        /\ staticKWArgs[o] = <<>> => sv = Absent
        /\ LET kw == [kwargs EXCEPT ![o] = [NoKWArgs EXCEPT !.x = x, !.s = sv]]
               pr == [precursor EXCEPT ![o] = pre]
               exs == [executor EXCEPT ![o] = @ \/ ex]
               h == ObjectsHeap(exs, kw, pr)
           IN  \E st \in ValidateStaticArgs(h, o, staticArgsValid[o]) :
                 LET h2 == [h EXCEPT !.attr[o].s = st.s] IN
                 \E nx \in (IF st.err = "none" THEN PopulateNext(h2, o)
                            ELSE {[next |-> next[o], err |-> st.err]}) :
                   LET h3 == [h2 EXCEPT !.attr[o].next = nx.next] IN
                   \E va \in (IF nx.err = "none" THEN ValidateArgs(h3, o)
                              ELSE {[x |-> attrX[o], err |-> nx.err]}) :
                     /\ kwargs' = kw
                     /\ precursor' = pr
                     /\ executor' = exs
                     /\ initialized' = [initialized EXCEPT ![o] = TRUE]
                     /\ fetchLocations' = [fetchLocations EXCEPT
                                              ![o] = InitializedLocations(o)]
                     /\ attrS' = [attrS EXCEPT ![o] = st.s]
                     /\ staticArgsValid' = [staticArgsValid EXCEPT ![o] = st.valid]
                     /\ next' = [next EXCEPT ![o] = nx.next]
                     /\ attrX' = [attrX EXCEPT ![o] = va.x]
                     /\ last' = [call |-> "WarmUp", op |-> o, err |-> va.err,
                                 populatedNext |-> (st.err = "none" /\ nx.err = "none")]
    /\ calls' = calls + 1
    /\ UNCHANGED <<result, attrA, requiredKWArgs, environ, functors, frames,
                   executed, queued>>
    /\ UNCHANGED <<declVars, classMethods, methods>>

\* The orders of locations Fetch is called with: this.fetchFrom, and shorter ones.
ScopeOrders ==
    {fetchFrom, <<"args", "environment">>, <<"environment", "args">>, <<"precursor">>,
     <<"this", "precursor">>}

\* The outside caller calls Fetch(varName, default, fetchFrom, start=False, attempted)
\* on a Functor that has been invoked.
FetchCall ==
    /\ calls < MaxInvocations
    /\ calls' = calls + 1
    /\ \E o \in {p \in Ops : initialized[p]}, varName \in {"x", "s"},
          locs \in ScopeOrders, visited \in BOOLEAN :
        LET attempted == IF visited THEN {o} ELSE {} IN
        last' = [call |-> "Fetch", op |-> o, varName |-> varName, locs |-> locs,
                 attempted |-> attempted,
                 answers |-> Fetch(ObjectsHeap(executor, kwargs, precursor), o, varName,
                                   Str("dflt"), locs, attempted)]
    /\ UNCHANGED <<result, next, attrA, executor, requiredKWArgs, environ, functors,
                   frames, executed, queued>>
    /\ UNCHANGED <<declVars, initialized, staticArgsValid, precursor, kwargs, attrX,
                   attrS, classMethods, methods, fetchLocations>>

NextArgs == Invoke \/ FetchCall

SpecArgs == InitArgs /\ [][NextArgs]_<<vars, declVars, setupVars>>

(***************************************************************************)
(* SpecMethods: PopulateMethods and ValidateMethods on Functors whose       *)
(* classes declare a @method m or none, one of them requiring m; the        *)
(* outside caller invokes them one at a time with a precursor               *)
(***************************************************************************)

\* A @method as its class declares it: what it does (tag), Method.propagate,
\* Method.inheritMethods, Method.inheritedMethodsFirst and an empty next.
Method(tag, propagate, inheritMethods, inheritedMethodsFirst) ==
    [tag |-> tag, propagate |-> propagate, inheritMethods |-> inheritMethods,
     inheritedMethodsFirst |-> inheritedMethodsFirst, next |-> <<>>]

RECURSIVE CallOrder(_)
RECURSIVE CallOrderOf(_)
\* The implementations a bound method runs when it is called: its own, then its
\* next, each with its own next, in order.
CallOrder(m) == <<m.tag>> \o CallOrderOf(m.next)
CallOrderOf(q) == IF q = <<>> THEN <<>> ELSE CallOrder(Head(q)) \o CallOrderOf(Tail(q))

\* util.HasAttr(this, 'precursor.methods') and the entry for m in it: what the
\* precursor pre holds as methods['m'], NoMethod without a precursor.
PrecursorMethods(pre) == IF pre = NoOp THEN NoMethod ELSE methods[pre]

\* The first source of PopulateMethods, 'classMethods' (honorPropagate False): the
\* class's m, copied, replaces what this.methods['m'] held; without it
\* this.methods['m'] stays as the earlier invocations left it.
PopulateClassMethods(own, cm) == IF cm # NoMethod THEN cm ELSE own

\* A wrong PopulateMethods, against which C16 is tested: the inherited method is
\* always appended.
PopulateMethods_Appends(held, source) ==
    IF source = NoMethod \/ ~source.propagate THEN held
    ELSE IF held = NoMethod THEN source
    ELSE IF ~held.inheritMethods THEN held
    ELSE [held EXCEPT !.next = Append(@, source)]

\* A wrong PopulateMethods, against which C22 is tested: a method whose name
\* this.methods does not hold yet is copied in whatever its propagate says.
PopulateMethods_ClonesAbsent(held, source) ==
    IF source = NoMethod THEN held
    ELSE IF held = NoMethod THEN source
    ELSE IF ~source.propagate \/ ~held.inheritMethods THEN held
    ELSE IF held.inheritedMethodsFirst THEN [source EXCEPT !.next = Append(@, held)]
    ELSE [held EXCEPT !.next = Append(@, source)]

\* The second source of PopulateMethods, 'precursor.methods' (honorPropagate True),
\* for the name m: held is this.methods['m'] after the first source, source is the
\* precursor's methods['m'].
PopulateMethods(held, source) ==
    IF source = NoMethod \/ ~source.propagate THEN held
    ELSE IF held = NoMethod THEN source
    ELSE IF ~held.inheritMethods THEN held
    ELSE IF held.inheritedMethodsFirst THEN [source EXCEPT !.next = Append(@, held)]
    ELSE [held EXCEPT !.next = Append(@, source)]

\* ValidateMethods: PopulateMethods binds an attribute for every entry of
\* this.methods, so a required m is there and callable when this.methods has it.
ValidateMethods(required, own) ==
    IF "m" \in required /\ own = NoMethod THEN "MissingMethodError" ELSE "none"

InitMethods ==
    /\ Fresh
    /\ requiredKWArgs = [o \in Ops |-> <<>>]
    /\ optionalKWArgs = [o \in Ops |-> {}]
    /\ staticKWArgs = [o \in Ops |-> <<>>]
    /\ requiredMethods = [o \in Ops |-> IF o = 3 THEN {"m"} ELSE {}]
    /\ thisFetchFrom = [o \in Ops |-> fetchFrom]
    /\ \E propagate, inheritMethods, inheritedMethodsFirst \in BOOLEAN :
        classMethods = [o \in Ops |->
            IF o = 1 THEN Method("one", propagate, TRUE, TRUE)
            ELSE IF o = 2 THEN Method("two", TRUE, inheritMethods, inheritedMethodsFirst)
            ELSE NoMethod]
    /\ environ = {}

\* The outside caller invokes Functor o with a precursor that has been invoked
\* before and an executor, and WarmUp runs: PopulatePrecursor, Initialize,
\* PopulateMethods, PopulateNext, ValidateArgs (nothing declared) and
\* ValidateMethods, up to the step that raises.
WarmUpMethods ==
    /\ calls < MaxInvocations
    /\ \E o \in Ops, pre \in {NoOp} \cup {p \in Ops : initialized[p]}, ex \in BOOLEAN :
        LET kw == [kwargs EXCEPT ![o] = NoKWArgs]
            pr == [precursor EXCEPT ![o] = pre]
            exs == [executor EXCEPT ![o] = @ \/ ex]
            held == PopulateClassMethods(methods[o], classMethods[o])
            source == PrecursorMethods(pre)
            own == PopulateMethods(held, source)
        IN  \E nx \in PopulateNext(ObjectsHeap(exs, kw, pr), o) :
              /\ kwargs' = kw
              /\ precursor' = pr
              /\ executor' = exs
              /\ initialized' = [initialized EXCEPT ![o] = TRUE]
              /\ fetchLocations' = [fetchLocations EXCEPT ![o] = InitializedLocations(o)]
              /\ methods' = [methods EXCEPT ![o] = own]
              /\ next' = [next EXCEPT ![o] = nx.next]
              /\ last' = [call |-> "WarmUp", op |-> o, held |-> held, source |-> source,
                          pre |-> pre, before |-> methods[o],
                          again |-> (last.call = "WarmUp" /\ last.op = o /\ last.pre = pre),
                          err |-> IF nx.err # "none" THEN nx.err
                                  ELSE ValidateMethods(requiredMethods[o], own)]
    /\ calls' = calls + 1
    /\ UNCHANGED <<result, attrA, requiredKWArgs, environ, functors, frames,
                   executed, queued>>
    /\ UNCHANGED <<declVars, staticArgsValid, attrX, attrS, classMethods>>

NextMethods == WarmUpMethods

SpecMethods == InitMethods /\ [][NextMethods]_<<vars, declVars, setupVars>>

(***************************************************************************)
(* SpecLocations: Initialize, Set and Fetch on Functors one of which        *)
(* declares its own fetchFrom, with a location that has no fetch_location_  *)
(* method in it                                                             *)
(***************************************************************************)

\* The locations a declared fetchFrom is made of: 'custom' has no method.
LocationNames == {"this", "args", "custom", "environment"}
\* The longest fetchFrom a Functor declares.
MaxLocations == 3

\* The lists without repetition a fetchFrom is declared as.
FetchFroms ==
    {q \in UNION {[1 .. n -> LocationNames] : n \in 1 .. MaxLocations} :
        \A j, k \in 1 .. Len(q) : q[j] = q[k] => j = k}

\* `if (loc not in this.fetchLocations.keys()): continue` in the loop of Fetch: the
\* locations of locs the loop calls.
Registered(locs, registered) == SelectSeq(locs, LAMBDA loc : loc \in registered)

InitLocations ==
    /\ Fresh
    /\ requiredKWArgs = [o \in Ops |-> <<>>]
    /\ optionalKWArgs = [o \in Ops |-> {}]
    /\ staticKWArgs = [o \in Ops |-> <<>>]
    /\ requiredMethods = [o \in Ops |-> {}]
    /\ classMethods = [o \in Ops |-> NoMethod]
    /\ \E o \in Ops, q \in FetchFroms :
        thisFetchFrom = [p \in Ops |-> IF p = o THEN q ELSE fetchFrom]
    /\ environ \in {{}, {"X"}}

\* Set('x', 'attr') on a Functor that has no attribute x yet.
Set ==
    /\ \E o \in Ops :
        /\ attrX[o] = Unset
        /\ attrX' = [attrX EXCEPT ![o] = EvaluateToType(Str("attr"))]
        /\ last' = [call |-> "Set", op |-> o]
    /\ UNCHANGED <<result, next, attrA, executor, requiredKWArgs, environ, functors,
                   frames, executed, queued, calls>>
    /\ UNCHANGED <<declVars, initialized, staticArgsValid, precursor, kwargs, attrS,
                   classMethods, methods, fetchLocations>>

\* The outside caller calls Fetch('x', 'dflt', start=False) on a Functor:
\* fetchFrom is this.fetchFrom, and the loop passes over what this.fetchLocations
\* does not hold.
FetchRegistered ==
    /\ \E o \in Ops :
        last' = [call |-> "Fetch", op |-> o, varName |-> "x", locs |-> thisFetchFrom[o],
                 attempted |-> {},
                 answers |-> Fetch(ObjectsHeap(executor, kwargs, precursor),
                                   o, "x", Str("dflt"),
                                   Registered(thisFetchFrom[o], fetchLocations[o]), {})]
    /\ UNCHANGED <<result, next, attrA, executor, requiredKWArgs, environ, functors,
                   frames, executed, queued, calls>>
    /\ UNCHANGED <<declVars, initialized, staticArgsValid, precursor, kwargs, attrX,
                   attrS, classMethods, methods, fetchLocations>>

NextLocations == Initialize \/ Set \/ FetchRegistered

SpecLocations == InitLocations /\ [][NextLocations]_<<vars, declVars, setupVars>>

(***************************************************************************)
(* Properties                                                              *)
(***************************************************************************)

Frames == 1 .. Len(frames)
\* The __call__ of frame i is over: it has returned or an exception has left it.
Over(i) == frames[i].pc \in {"Return", "Raise"}
Ran(f, what) == \E k \in 1 .. Len(f.events) : f.events[k] = what
LastEvent(f) == IF f.events = <<>> THEN "none" ELSE f.events[Len(f.events)]

\* C1: an invocation in which no lifecycle step raised leaves result 0 when Function
\* succeeded, 1 when it failed and the enabled Rollback succeeded, 2 when it failed
\* and the enabled Rollback failed, 3 when it failed with rollback disabled; Rollback
\* ran in cases 1 and 2 only.
C1_ResultCoding ==
    \A i \in Frames :
        LET f == frames[i] IN
        (Over(i) /\ ~f.raised) =>
            /\ f.fn \in {"ok", "fail"}
            /\ f.fn = "ok" => (result[f.op] = 0 /\ ~Ran(f, "Rollback"))
            /\ (f.fn = "fail" /\ f.enableRollback /\ f.rollback = "ok") =>
                   (result[f.op] = 1 /\ Ran(f, "Rollback"))
            /\ (f.fn = "fail" /\ f.enableRollback /\ f.rollback = "fail") =>
                   (result[f.op] = 2 /\ Ran(f, "Rollback"))
            /\ (f.fn = "fail" /\ ~f.enableRollback) =>
                   (result[f.op] = 3 /\ ~Ran(f, "Rollback") /\ f.rollback = "none")

\* An invocation has ended with result 2 after its enabled Rollback failed.
C1_Witness ==
    \E i \in Frames :
        /\ Over(i) /\ ~frames[i].raised
        /\ frames[i].fn = "fail" /\ frames[i].enableRollback /\ frames[i].rollback = "fail"
        /\ result[frames[i].op] = 2

\* C2: an invocation that has set its result code has gone to CallNext exactly when
\* the code is 0 or 1, and every successor that was executed was handed over by an
\* invocation with code 0 or 1.
C2_Chaining ==
    /\ \A i \in Frames :
        LET f == frames[i] IN
        (f.code # -1 /\ f.pc \in {"Waiting", "After", "Final", "Return", "Raise"}) =>
            (Ran(f, "CallNext") <=> f.code \in {0, 1})
    /\ \A k \in 1 .. Len(executed) : executed[k].by \in {0, 1}

\* A successor runs after its precursor's Rollback succeeded.
C2_Witness ==
    \E k \in 1 .. Len(executed) : executed[k].by = 1 /\ executed[k].how = "running"

\* C3: with raiseExceptions, an invocation that set result 2 or 3 ends by raising
\* FunctorError, after AfterFunction has run, and an invocation that returns leaves
\* no result above 1.
C3_RaiseAfterHook ==
    \A i \in Frames :
        LET f == frames[i] IN
        (Over(i) /\ f.raiseExceptions) =>
            /\ f.code \in {2, 3} =>
                  /\ f.pc = "Raise"
                  /\ f.exc = Exc("FunctorError", f.op)
                  /\ LastEvent(f) = "After"
            /\ f.pc = "Return" => result[f.op] \notin {2, 3}

\* FunctorError leaves an invocation whose Rollback failed.
C3_Witness ==
    \E i \in Frames :
        /\ frames[i].pc = "Raise" /\ frames[i].raiseExceptions
        /\ frames[i].exc = Exc("FunctorError", frames[i].op)
        /\ frames[i].code = 2

\* C4 (as claimed): an invocation whose WarmUp failed runs no hook, no Function, no
\* Rollback and no successor; with raiseExceptions it raises, without it returns None.
C4_WarmUpAborts ==
    \A i \in Frames :
        LET f == frames[i] IN
        f.warm # "none" =>
            /\ f.events = <<>>
            /\ f.raiseExceptions => f.pc = "Raise"
            /\ ~f.raiseExceptions => f.pc \in {"Final", "Return"}
            /\ f.pc = "Return" => f.ret = NONE

\* C5 (as claimed): when no invocation is running, FunctorTracker's stack is as it
\* was before the first one, empty.
C5_TrackerBalanced == frames = <<>> => functors = <<>>

\* C6 (as claimed): when the outside caller's Functor succeeded and its successor
\* failed with result 3, the outside caller gets the successor's failure: its
\* exception, or what it returned when it returned something.
C6_LastResultSurfaces ==
    (frames # <<>> /\ Over(1) /\ frames[1].code = 0
        /\ executed # <<>> /\ executed[1].code = 3) =>
            \/ frames[1].pc = "Raise" /\ frames[1].exc.src = executed[1].op
            \/ /\ frames[1].pc = "Return" /\ executed[1].how = "return"
               /\ executed[1].val = NONE \/ frames[1].ret = executed[1].val

\* C7: the successors executed in a chain are the first entries of the outside
\* caller's queue, in its order, each once, each handed over by the one before it.
C7_OnceInOrder ==
    /\ Len(executed) <= Len(queued)
    /\ \A k \in 1 .. Len(executed) :
        /\ executed[k].op = queued[k]
        /\ executed[k].precursor = IF k = 1 THEN frames[1].op ELSE executed[k - 1].op
    /\ \A j, k \in 1 .. Len(executed) : j # k => executed[j].op # executed[k].op

\* Two queued successors have been executed.
C7_Witness == Len(executed) = 2 /\ executed[2].how = "return"

\* C8: CallNext on an empty queue returns None and executes nothing; with a queue,
\* an executor and ValidateNext accepting, it pops the first successor and has it
\* executed with *this as precursor and the rest of the queue as its next; what the
\* successor returns is what CallNext returns.
C8_CallNextContract ==
    [][ /\ Running("CallNext") =>
            LET o == frames[Top].op
                q == next[o]
            IN
            /\ q = List(<<>>) =>
                  /\ Len(frames') = Top
                  /\ frames'[Top].nextRet = NONE /\ frames'[Top].pc = "After"
                  /\ executed' = executed
            /\ (q # List(<<>>) /\ executor[o] /\ frames'[Top].validateNext = "yes") =>
                  /\ Len(frames') = Top + 1
                  /\ frames'[Top + 1].op = Head(q.l)
                  /\ frames'[Top + 1].pc = "WarmUp"
                  /\ frames'[Top + 1].kwargs.next = List(Tail(q.l))
                  /\ next'[o] = List(Tail(q.l))
                  /\ Len(executed') = Len(executed) + 1
                  /\ executed'[Len(executed')].op = Head(q.l)
                  /\ executed'[Len(executed')].precursor = o
                  /\ executed'[Len(executed')].next = Tail(q.l)
        /\ (Running("Return") /\ Top > 1) =>
            (frames'[Top - 1].nextRet = frames[Top].ret /\ frames'[Top - 1].pc = "After")
      ]_vars

\* A successor has just been executed with a queue that still holds a Functor.
C8_Witness ==
    /\ Len(frames) >= 2 /\ frames[Top].pc = "WarmUp"
    /\ executed[Top - 1].op = frames[Top].op
    /\ executed[Top - 1].next # <<>>

\* C9: when CallNext popped a successor and there is no executor, or ValidateNext
\* said no, CallNext raised InvalidNext and the successor was not executed.
C9_InvalidSuccessor ==
    \A i \in Frames :
        LET f == frames[i] IN
        (f.popped # NoOp /\ (~executor[f.op] \/ f.validateNext = "no")) =>
            /\ f.exc = Exc("InvalidNext", f.op)
            /\ f.pc \in {"Raise", "Final", "Return"}
            /\ Len(frames) = i
            /\ Len(executed) < i

\* ValidateNext has rejected a popped successor.
C9_Witness ==
    \E i \in Frames :
        /\ frames[i].popped # NoOp /\ frames[i].validateNext = "no"
        /\ frames[i].exc.kind = "InvalidNext"

\* Whether a location other than 'this' has `a` for frame i.
OtherScopeHas(i) ==
    \E loc \in SeqToSet(fetchFrom) \ {"this"} :
        \E r \in FetchLocation(FramesHeap(executor), frames[i].op, loc, "a", NONE,
                                {frames[i].op}) :
            r.st = "found"

\* C10 (as claimed): once WarmUp is done for a Functor that requires `a` and got no
\* positional argument, either a location other than 'this' has `a`, or WarmUp
\* failed with MissingArgumentError, whatever `a` the Functor was left with.
C10_RequiredFromContext ==
    \A i \in Frames :
        LET f == frames[i] IN
        (f.pc # "WarmUp" /\ requiredKWArgs[f.op] # <<>> /\ f.args = <<>>) =>
            IF OtherScopeHas(i) THEN f.warm = "none"
            ELSE f.warm = "MissingArgumentError"

\* Whether sequence q holds b, a, c one right after the other.
Around(q, b, a, c) ==
    \E k \in 1 .. Len(q) - 2 : q[k] = b /\ q[k + 1] = a /\ q[k + 2] = c
Count(q, e) == Cardinality({k \in 1 .. Len(q) : q[k] = e})

\* C18 (as claimed): an invocation that ran Rollback ran BeforeRollback right before
\* it and AfterRollback right after it, each once; an invocation that did not run
\* Rollback ran neither hook.
C18_RollbackHooks ==
    \A i \in Frames :
        LET f == frames[i] IN
        /\ Ran(f, "Rollback") =>
              /\ Around(f.events, "BeforeRollback", "Rollback", "AfterRollback")
              /\ Count(f.events, "BeforeRollback") = 1
              /\ Count(f.events, "AfterRollback") = 1
        /\ ~Ran(f, "Rollback") =>
              ~Ran(f, "BeforeRollback") /\ ~Ran(f, "AfterRollback")

\* C19: a WarmUp that has run with an executor attached called BeginPlacing exactly
\* once; when it completed without error it called ResolvePlacementOf exactly once,
\* after BeginPlacing; ResolvePlacementOf is never called without the BeginPlacing of
\* the same WarmUp before it, and neither is called without an executor.
C19_Placing ==
    \A i \in Frames :
        LET f == frames[i] IN
        /\ (f.pc # "WarmUp" /\ executor[f.op]) =>
              /\ Count(f.placing, "BeginPlacing") = 1
              /\ f.warm = "none" => f.placing = <<"BeginPlacing", "ResolvePlacementOf">>
        /\ Count(f.placing, "ResolvePlacementOf") <= 1
        /\ Ran([events |-> f.placing], "ResolvePlacementOf") =>
              (f.placing # <<>> /\ f.placing[1] = "BeginPlacing")
        /\ (f.pc = "WarmUp" \/ ~executor[f.op]) => f.placing = <<>>

\* A WarmUp with an executor has completed, and another one has failed after
\* BeginPlacing, in the same chain.
C19_Witness ==
    \E i, j \in Frames :
        /\ frames[i].placing = <<"BeginPlacing", "ResolvePlacementOf">>
        /\ frames[j].placing = <<"BeginPlacing">> /\ frames[j].warm # "none"

\* C13 (as claimed): after Initialize no name is both in requiredKWArgs and in
\* optionalKWArgs, and requiredKWArgs is what was declared, every name once where it
\* was first seen, without the optional names.
C13_NoNameInBoth ==
    /\ \A o \in Ops :
        initialized[o] => SeqToSet(requiredKWArgs[o]) \cap optionalKWArgs[o] = {}
    /\ last.call = "Initialize" =>
        requiredKWArgs[last.op] =
            SelectSeq(Dedup(last.declared), LAMBDA n : n \notin optionalKWArgs[last.op])

allVars == <<vars, declVars, setupVars>>
Heap == ObjectsHeap(executor, kwargs, precursor)
\* The values location loc of Functor o finds for name n, and whether it can report
\* not found.
Finds(o, loc, n) ==
    {r.val : r \in {r \in FetchLocation(Heap, o, loc, n, NONE, {o}) : r.st = "found"}}
Misses(o, loc, n) ==
    \E r \in FetchLocation(Heap, o, loc, n, NONE, {o}) : r.st = "default"

\* C11: the attribute of a static name, once bound, is left as it is by every later
\* step, and staticArgsValid, once set, stays set.
C11_StaticOnce ==
    [][\A o \in Ops :
          /\ (staticKWArgs[o] # <<>> /\ attrS[o] # Unset) => attrS'[o] = attrS[o]
          /\ staticArgsValid[o] => staticArgsValid'[o]]_allVars

\* A Functor whose static s was bound by an earlier invocation has been invoked with
\* another value for s in its keyword arguments.
C11_Witness ==
    /\ last.call = "WarmUp" /\ staticKWArgs[last.op] # <<>>
    /\ staticArgsValid[last.op]
    /\ kwargs[last.op].s # Absent /\ kwargs[last.op].s # attrS[last.op]

\* C12 (as claimed): after WarmUp of a Functor that declares optional x (and no
\* static argument), x is bound to a value a location other than 'this' finds for
\* it, or to its default 5 when none of them finds it.
C12_OptionalEveryTime ==
    (last.call = "WarmUp" /\ "x" \in optionalKWArgs[last.op]
        /\ staticKWArgs[last.op] = <<>>) =>
        LET o == last.op
            others == SeqToSet(fetchFrom) \ {"this"}
        IN  IF \E loc \in others : Finds(o, loc, "x") # {}
            THEN \E loc \in others : attrX[o] \in Finds(o, loc, "x")
            ELSE attrX[o] = DefaultOf("x")

\* C14 (as claimed): Fetch called with an order of locations hands back the value of
\* the first location that finds the name, having called the locations up to that
\* one and none after it, or the caller's default when every location reports not
\* found, having called them all.
C14_FirstFoundWins ==
    (last.call = "Fetch" /\ last.attempted = {}) =>
        LET o == last.op
            n == last.varName
            locs == last.locs
        IN  \A r \in last.answers :
              \/ /\ r.st = "found"
                 /\ \E k \in 1 .. Len(locs) :
                      /\ r.asked = SubSeq(locs, 1, k)
                      /\ r.val \in Finds(o, locs[k], n)
                      /\ \A j \in 1 .. k - 1 : Misses(o, locs[j], n)
              \/ /\ r.st = "default"
                 /\ r.val = Str("dflt") /\ r.asked = locs
                 /\ \A k \in 1 .. Len(locs) : Misses(o, locs[k], n)

\* C15: Fetch entered on a Functor that is in `attempted` hands back the default as
\* not found and calls no location; every Fetch of every invoked Functor comes to
\* an answer, whatever the precursors are (cycles among them); and where precursors
\* form a cycle, a Fetch through the precursor for a name that no Functor has, with
\* every executor attached, comes back with the default.
C15_CycleSafe ==
    /\ (last.call = "Fetch" /\ last.op \in last.attempted) =>
          last.answers = {Answer(NotFound(Str("dflt")), <<>>)}
    /\ \A o \in Ops, n \in {"x", "s"} :
          initialized[o] => Fetch(Heap, o, n, Str("dflt"), fetchFrom, {}) # {}
    /\ \A o \in Ops :
          (/\ initialized[o] /\ precursor[o] # NoOp
           /\ \A p \in Ops : attrS[p] = Unset /\ kwargs[p].s = Absent /\ executor[p]) =>
              Fetch(Heap, o, "s", Str("dflt"), <<"precursor">>, {})
                  = {Answer(NotFound(Str("dflt")), <<"precursor">>)}

\* Fetch is entered on a Functor that is in `attempted`, has the name in its
\* keyword arguments and is its own precursor.
C15_Witness ==
    /\ last.call = "Fetch" /\ last.op \in last.attempted
    /\ kwargs[last.op][last.varName] # Absent
    /\ precursor[last.op] = last.op

\* C20 (as claimed): Fetch through the precursor location alone does not find a name
\* that the precursor (which has no precursor itself) does not have in its keyword
\* arguments: its attributes and the environment are not looked at.
C20_PrecursorScope ==
    (/\ last.call = "Fetch" /\ last.locs = <<"precursor">> /\ last.attempted = {}
     /\ precursor[last.op] \notin {NoOp, last.op}) =>
        LET p == precursor[last.op] IN
        (kwargs[p][last.varName] = Absent /\ precursor[p] = NoOp) =>
            \A r \in last.answers : r.st # "found"

\* C16: where PopulateMethods found this.methods['m'] held by the Functor, open to
\* inherited methods, and the precursor supplying a propagating m, the bound m runs
\* both: the inherited implementations and then the held ones when the held m has
\* inheritedMethodsFirst, the held ones and then the inherited ones when not.
C16_MergeOrder ==
    (/\ last.call = "WarmUp"
     /\ last.held # NoMethod /\ last.source # NoMethod
     /\ last.held.inheritMethods /\ last.source.propagate) =>
        CallOrder(methods[last.op]) =
            IF last.held.inheritedMethodsFirst
            THEN CallOrder(last.source) \o CallOrder(last.held)
            ELSE CallOrder(last.held) \o CallOrder(last.source)

\* The Functor whose class declares m with inheritedMethodsFirst has been invoked
\* after a precursor whose m propagates, and its m runs the inherited
\* implementation and then its own.
C16_Witness ==
    /\ last.call = "WarmUp" /\ last.op = 2
    /\ last.source # NoMethod /\ last.held.inheritedMethodsFirst
    /\ CallOrder(methods[2]) = <<"one", "two">>

\* C17 (as claimed): a WarmUp of the Functor that requires m ends in
\* MissingMethodError unless its class declares m or the precursor of this
\* invocation supplies a propagating m, and does not end in it when one of them does.
C17_RequiredMethodsFresh ==
    (last.call = "WarmUp" /\ "m" \in requiredMethods[last.op]) =>
        LET supplied == \/ classMethods[last.op] # NoMethod
                        \/ (last.source # NoMethod /\ last.source.propagate)
        IN  /\ supplied => last.err # "MissingMethodError"
            /\ ~supplied => last.err # "none"

\* C22 (as claimed): where this.methods does not hold m when PopulateMethods comes
\* to the precursor's methods and the precursor has an m, this.methods['m'] is a copy
\* of it afterwards, whatever its propagate says.
C22_AbsentIsCloned ==
    (last.call = "WarmUp" /\ last.held = NoMethod /\ last.source # NoMethod) =>
        methods[last.op] = last.source

\* C22 (amended): the class's own m is copied into this.methods whatever its
\* propagate says; where this.methods does not hold m when PopulateMethods comes to
\* the precursor's methods, the precursor's m is copied in when it propagates, and
\* this.methods stays without m when it does not.
C22_AbsentIsClonedIfPropagating ==
    last.call = "WarmUp" =>
        /\ classMethods[last.op] # NoMethod => last.held = classMethods[last.op]
        /\ (last.held = NoMethod /\ last.source # NoMethod) =>
              methods[last.op] = IF last.source.propagate THEN last.source ELSE NoMethod

\* A Functor that holds no m has been invoked after a precursor whose m does not
\* propagate, and holds no m afterwards.
C22_Witness ==
    /\ last.call = "WarmUp" /\ last.held = NoMethod
    /\ last.source # NoMethod /\ ~last.source.propagate
    /\ methods[last.op] = NoMethod

\* C24 (as claimed): a Functor invoked again with the precursor of its invocation
\* right before (another Functor, or none) holds the same m with the same next as
\* before that invocation.
C24_MergeIdempotent ==
    (last.call = "WarmUp" /\ last.again /\ last.pre # last.op) =>
        methods[last.op] = last.before

\* C21 (as claimed): after a WarmUp that got through PopulateNext, this.next is the
\* next of the keyword arguments when it is given, and otherwise the next that the
\* keyword arguments of a Functor reached through the precursor hold, or the empty
\* list: never a value that only an attribute, the environment, the executor or the
\* builtins have.
C21_NextScopes ==
    (last.call = "WarmUp" /\ last.populatedNext) =>
        LET o == last.op IN
        IF kwargs[o].next # Absent THEN next[o] = EvaluateToType(kwargs[o].next)
        ELSE next[o] \in {List(<<>>)} \cup
                 {EvaluateToType(kwargs[p].next) : p \in {p \in Ops : kwargs[p].next # Absent}}

\* C23 (as claimed): an initialized Functor has in fetchLocations every location of
\* its fetchFrom that has a fetch_location_ method, and its Fetch answers as the
\* loop over those locations of its fetchFrom, in their order, answers.
C23_ResolversRegistered ==
    /\ \A o \in Ops :
        initialized[o] => fetchLocations[o] = SeqToSet(thisFetchFrom[o]) \cap Resolvers
    /\ (last.call = "Fetch" /\ initialized[last.op]) =>
        last.answers = Fetch(Heap, last.op, last.varName, Str("dflt"),
                             Registered(last.locs, Resolvers), {})

\* C25 (as claimed): an invocation that returns to its caller has set the result
\* code itself, this.result is that code, and it is above 1 when Function raised.
C25_ResultDescribesOutcome ==
    \A i \in Frames :
        LET f == frames[i] IN
        f.pc = "Return" =>
            /\ f.code # -1
            /\ result[f.op] = f.code
            /\ f.fn = "raise" => result[f.op] > 1

====
